---------------------------- MODULE Spec2Model ----------------------------
(***************************************************************************)
(* Model of src/src/server.js (discord-mcp-server): the identifier         *)
(* resolvers findGuild / findChannel / findCategory, the tool-call handler *)
(* that wraps them in try/catch, the read_messages_bulk pagination loop    *)
(* (one run, two runs interleaved, and a run on a channel that grows), the *)
(* single page fetch of read_messages, and the startup handshake of main.  *)
(*                                                                         *)
(* Strings are sequences of one-character strings, so that toLowerCase and *)
(* replace("#", "") are computed character by character.                   *)
(***************************************************************************)
EXTENDS Integers, Sequences, FiniteSets, TLC

VARIABLES
  discordClient,   \* server.js:43   "null" until the ready event, then "client"
  guilds,          \* client.guilds.cache: the servers the bot is in
  channels,        \* every channel client.channels.fetch can see
  pc,              \* position of the tool-call handler: "idle" | "responded"
  call,            \* the tool invocation being answered
  result,          \* outcome of the resolver call made by the handler
  response,        \* what the handler hands back to the MCP client
  source,          \* number of messages held by the channel read in bulk
  total_limit,     \* read_messages_bulk argument
  unlimited,       \* read_messages_bulk argument
  bpc,             \* position inside read_messages_bulk
  allMessages,     \* server.js:1697
  before,          \* server.js:1698
  remainingLimit,  \* server.js:1699
  batchLimit,      \* server.js:1703
  pages,           \* log of the page fetches issued: <<[limit, before, got]>>
  rpc,             \* position inside read_messages
  fetchOptions,    \* server.js:1629-1632
  messageList,     \* server.js:1636: the IDs of the page, newest first
  fetches,         \* number of page fetches read_messages has issued
  runs,            \* two concurrent read_messages_bulk invocations
  sources,         \* number of messages held by each channel they read
  posted,          \* messages posted to the channel since the model started
  mpc,             \* position of main(), server.js:2831-2848
  readyFired,      \* the client has emitted its 'ready' event
  listeners,       \* the once-listeners registered for 'ready'
  registered       \* every listener that was ever registered for 'ready'

vars == <<discordClient, guilds, channels, pc, call, result, response,
          source, total_limit, unlimited, bpc, allMessages, before,
          remainingLimit, batchLimit, pages,
          rpc, fetchOptions, messageList, fetches, runs, sources,
          posted, mpc, readyFired, listeners, registered>>

mainVars == <<mpc, readyFired, listeners, registered>>

resolverVars == <<discordClient, guilds, channels, pc, call, result>>

loopVars == <<total_limit, unlimited, bpc, allMessages, before,
              remainingLimit, batchLimit, pages>>

readVars == <<rpc, fetchOptions, messageList, fetches>>

pairVars == <<runs, sources>>

bulkVars == <<source, total_limit, unlimited, bpc, allMessages, before,
              remainingLimit, batchLimit, pages>>

---------------------------------------------------------------------------
(* Bounds of the model *)

MaxGuilds == 2
MaxChannels == 3

---------------------------------------------------------------------------
(* Strings *)

\* The JavaScript value undefined (an optional argument that was not given).
Undefined == <<"undefined">>

\* !x for a string-or-undefined x: undefined and "" are falsy.
Falsy(x) == x = Undefined \/ x = <<>>

LowerChar(c) ==
  CASE c = "G" -> "g"
    [] OTHER -> c

\* String.prototype.toLowerCase
toLowerCase(s) == [i \in DOMAIN s |-> LowerChar(s[i])]

\* String.prototype.replace("#", ""): removes the FIRST "#", wherever it is.
replaceHash(s) ==
  IF \E i \in DOMAIN s : s[i] = "#"
  THEN LET k == CHOOSE i \in DOMAIN s :
                  s[i] = "#" /\ \A j \in 1..(i - 1) : s[j] # "#"
       IN  SubSeq(s, 1, k - 1) \o SubSeq(s, k + 1, Len(s))
  ELSE s

---------------------------------------------------------------------------
(* Entities: servers (guilds) and channels *)

\* The snowflake ID of the i-th entity: i digits "1".
Snowflake(i) == [k \in 1..i |-> "1"]

GuildNames == {<<"G">>, <<"g">>, <<"1", "1">>}
ChannelNames == {<<"G">>, <<"g", "#">>, <<"1">>}
ChannelTypes == {"GuildText", "GuildCategory"}

Guild(i, n) == [id |-> Snowflake(i), name |-> n, guild |-> Undefined, type |-> "Guild"]
Channel(i, g, n, t) == [id |-> Snowflake(i), name |-> n, guild |-> g, type |-> t]

\* channel.isTextBased(): categories are not text-based, text channels,
\* threads and DM channels are.
isTextBased(c) == c.type \in {"GuildText", "DM"}

\* Collection.first(): the first value, undefined for an empty collection.
NoValue == [id |-> Undefined, name |-> Undefined, guild |-> Undefined, type |-> "undefined"]
first(coll) == IF coll = {} THEN NoValue ELSE CHOOSE x \in coll : TRUE

\* guild.channels.cache of the guild with ID gid
guildChannels(gid) == {c \in channels : c.guild = gid}

---------------------------------------------------------------------------
(* Results of the resolvers: a returned value or a thrown Error.  An error *)
(* records the line that throws it, its kind, and which names and IDs its  *)
(* message lists; calls logs the upstream fetches made on the way.         *)

NoError == [site |-> 0, kind |-> "none", listsNames |-> FALSE, names |-> {}, ids |-> {}]
Error(site, kind, listsNames, names, ids) ==
  [site |-> site, kind |-> kind, listsNames |-> listsNames, names |-> names, ids |-> ids]

Return(v, calls) == [tag |-> "return", value |-> v, error |-> NoError, calls |-> calls]
Throw(e, calls) == [tag |-> "throw", value |-> NoValue, error |-> e, calls |-> calls]
NoResult == [tag |-> "none", value |-> NoValue, error |-> NoError, calls |-> <<>>]

\* requireDiscordClient(): throws while the ready event has not fired.
requireDiscordClient ==
  IF discordClient = "null"
  THEN Throw(Error(53, "NotReady", FALSE, {}, {}), <<>>)
  ELSE Return(NoValue, <<>>)

\* client.guilds.fetch(id): the guild with this ID, or a rejection (unknown
\* guild, or the API call failing: apiFails).
guildsFetch(id, apiFails) ==
  IF ~apiFails /\ \E g \in guilds : g.id = id
  THEN Return(CHOOSE g \in guilds : g.id = id, <<"guilds.fetch">>)
  ELSE Throw(Error(78, "FetchRejected", FALSE, {}, {}), <<"guilds.fetch">>)

\* client.channels.fetch(id)
channelsFetch(id, apiFails) ==
  IF ~apiFails /\ \E c \in channels : c.id = id
  THEN Return(CHOOSE c \in channels : c.id = id, <<"channels.fetch">>)
  ELSE Throw(Error(115, "FetchRejected", FALSE, {}, {}), <<"channels.fetch">>)

---------------------------------------------------------------------------
(* The resolvers, server.js:59-218.  gFails / cFails: whether the upstream *)
(* call behind client.guilds.fetch / client.channels.fetch fails.          *)

\* Mutant: the name comparison forgets toLowerCase on the guild's side.
guildNameMatches_caseSensitive(ident) ==
  {g \in guilds : g.name = toLowerCase(ident)}

\* server.js:82-84: case-insensitive exact match on the guild name
guildNameMatches(ident) ==
  {g \in guilds : toLowerCase(g.name) = toLowerCase(ident)}

\* Mutant: "size <= 1" instead of "size === 1", so that an empty cache
\* yields cache.first(), which is undefined.
onlyOneGuild_orNone == Cardinality(guilds) <= 1

\* server.js:64: client.guilds.cache.size === 1
onlyOneGuild == Cardinality(guilds) = 1

findGuild(guildIdentifier, gFails) ==
  IF requireDiscordClient.tag = "throw" THEN requireDiscordClient
  ELSE IF Falsy(guildIdentifier) THEN
    IF onlyOneGuild
    THEN Return(first(guilds), <<>>)
    ELSE Throw(Error(71, "AmbiguousScope", TRUE, {g.name : g \in guilds}, {}), <<>>)
  ELSE
    LET fetched == guildsFetch(guildIdentifier, gFails)
        matched == guildNameMatches(guildIdentifier)
    IN  IF fetched.tag = "return" THEN
          IF fetched.value # NoValue
          THEN Return(fetched.value, fetched.calls)
          ELSE Throw(Error(102, "NotFound", FALSE, {}, {}), fetched.calls)
        ELSE IF Cardinality(matched) = 0 THEN
          Throw(Error(90, "NotFound", TRUE, {g.name : g \in guilds}, {}), fetched.calls)
        ELSE IF Cardinality(matched) > 1 THEN
          Throw(Error(96, "Ambiguous", TRUE, {g.name : g \in matched},
                      {g.id : g \in matched}), fetched.calls)
        ELSE Return(first(matched), fetched.calls)

\* Mutant: the name filter forgets isTextBased().
channelNameMatches_anyType(gid, ident) ==
  {c \in guildChannels(gid) :
     \/ toLowerCase(c.name) = toLowerCase(ident)
     \/ toLowerCase(c.name) = replaceHash(toLowerCase(ident))}

\* server.js:126-132: text-based channels of the guild whose name equals the
\* identifier, or the identifier with its first "#" removed, ignoring case
channelNameMatches(gid, ident) ==
  {c \in guildChannels(gid) :
     /\ isTextBased(c)
     /\ \/ toLowerCase(c.name) = toLowerCase(ident)
        \/ toLowerCase(c.name) = replaceHash(toLowerCase(ident))}

findChannel(channelIdentifier, guildIdentifier, gFails, cFails) ==
  IF requireDiscordClient.tag = "throw" THEN requireDiscordClient
  ELSE IF ~Falsy(guildIdentifier) THEN
    LET g == findGuild(guildIdentifier, gFails) IN
    IF g.tag = "throw" THEN g
    ELSE
      LET guild == g.value
          fetched == channelsFetch(channelIdentifier, cFails)
          calls == g.calls \o fetched.calls
          ch == fetched.value
          matched == channelNameMatches(guild.id, channelIdentifier)
          available == {c \in guildChannels(guild.id) : isTextBased(c)}
      IN  IF fetched.tag = "return" THEN
            IF ch # NoValue /\ ch.guild # Undefined /\ ch.guild = guild.id
               /\ isTextBased(ch)
            THEN Return(ch, calls)
            ELSE Throw(Error(153, "WrongType", FALSE, {}, {}), calls)
          ELSE IF Cardinality(matched) = 0 THEN
            Throw(Error(139, "NotFound", TRUE, {c.name : c \in available}, {}), calls)
          ELSE IF Cardinality(matched) > 1 THEN
            Throw(Error(147, "Ambiguous", TRUE, {c.name : c \in matched},
                        {c.id : c \in matched}), calls)
          ELSE Return(first(matched), calls)
  ELSE
    LET fetched == channelsFetch(channelIdentifier, cFails)
        ch == fetched.value
    IN  IF fetched.tag = "return" /\ ch # NoValue /\ isTextBased(ch)
        THEN Return(ch, fetched.calls)
        \* the "is not a text channel" Error of line 164 is thrown inside the
        \* try block and replaced by the catch block's Error of line 166
        ELSE Throw(Error(166, "NotFound", FALSE, {}, {}), fetched.calls)

\* server.js:190-194
categoryNameMatches(gid, ident) ==
  {c \in guildChannels(gid) :
     c.type = "GuildCategory" /\ toLowerCase(c.name) = toLowerCase(ident)}

findCategory(categoryIdentifier, guildIdentifier, gFails, cFails) ==
  IF requireDiscordClient.tag = "throw" THEN requireDiscordClient
  ELSE
    LET g == findGuild(guildIdentifier, gFails) IN
    IF g.tag = "throw" THEN g
    ELSE
      LET guild == g.value
          fetched == channelsFetch(categoryIdentifier, cFails)
          calls == g.calls \o fetched.calls
          cat == fetched.value
          matched == categoryNameMatches(guild.id, categoryIdentifier)
          available == {c \in guildChannels(guild.id) : c.type = "GuildCategory"}
      IN  IF fetched.tag = "return" THEN
            IF cat # NoValue /\ cat.guild # Undefined /\ cat.guild = guild.id
               /\ cat.type = "GuildCategory"
            THEN Return(cat, calls)
            ELSE Throw(Error(215, "NotFound", FALSE, {}, {}), calls)
          ELSE IF Cardinality(matched) = 0 THEN
            Throw(Error(201, "NotFound", TRUE, {c.name : c \in available}, {}), calls)
          ELSE IF Cardinality(matched) > 1 THEN
            Throw(Error(209, "Ambiguous", TRUE, {c.name : c \in matched},
                        {c.id : c \in matched}), calls)
          ELSE Return(first(matched), calls)

---------------------------------------------------------------------------
(* The tool-call handler, server.js:1603-1608 and 2802-2828: the readiness *)
(* check is made outside the try block; everything thrown inside it        *)
(* becomes a response with isError set.                                    *)

NoCall == [name |-> "none", server |-> Undefined, channel |-> Undefined,
           category |-> Undefined, apiFails |-> FALSE]
ToolCall(name, server, channel, category, apiFails) ==
  [name |-> name, server |-> server, channel |-> channel,
   category |-> category, apiFails |-> apiFails]

NoResponse == [kind |-> "none", isError |-> FALSE, error |-> NoError]
\* main().catch is not involved: the exception leaves the handler
Unhandled(e) == [kind |-> "exception", isError |-> FALSE, error |-> e]
\* server.js:2806-2817
InvalidArguments == [kind |-> "Invalid arguments", isError |-> TRUE, error |-> NoError]
\* Mutant: the response of the catch block lacks isError.
ErrorResponse_noFlag(e) == [kind |-> "Error", isError |-> FALSE, error |-> e]

\* server.js:2819-2827
ErrorResponse(e) == [kind |-> "Error", isError |-> TRUE, error |-> e]
Success == [kind |-> "content", isError |-> FALSE, error |-> NoError]

\* Mutant: no catch block, the Error leaves the handler.
respond_noCatch(r) ==
  IF r.tag = "throw" THEN Unhandled(r.error) ELSE Success

\* The response for a handler run whose resolver call ended as r and whose
\* remaining steps do not throw.
respond(r) ==
  IF requireDiscordClient.tag = "throw" THEN Unhandled(requireDiscordClient.error)
  ELSE IF r.tag = "throw" THEN ErrorResponse(r.error)
  ELSE Success

\* CategoryChannelsSchema.parse(args), server.js:320-327: category is a
\* required string
categoryArgsValid(c) == c.category # Undefined

\* The resolver call of a category tool: none when parse throws first.
categoryResolution(c) ==
  IF requireDiscordClient.tag = "throw" \/ ~categoryArgsValid(c) THEN NoResult
  ELSE findCategory(c.category, c.server, c.apiFails, c.apiFails)

categoryResponse(c) ==
  IF requireDiscordClient.tag = "throw" THEN Unhandled(requireDiscordClient.error)
  ELSE IF ~categoryArgsValid(c) THEN InvalidArguments
  ELSE respond(categoryResolution(c))

Finish(c, r, resp) ==
  /\ pc = "idle"
  /\ pc' = "responded"
  /\ call' = c
  /\ result' = r
  /\ response' = resp
  /\ UNCHANGED <<readVars, pairVars, posted, mainVars>>
  /\ UNCHANGED <<discordClient, guilds, channels>>
  /\ UNCHANGED bulkVars

\* Inputs of the tool calls
ServerArgs == {Undefined, <<>>, <<"g">>, <<"G">>, <<"1">>, <<"1", "1">>}
ScopeArgs == {Undefined, <<"g">>, <<"1">>, <<"1", "1">>}
ChannelArgs == {<<"g">>, <<"#", "G">>, <<"g", "#">>, <<"1">>}
CategoryArgs == ChannelArgs \cup {Undefined}

\* case "get_server_info", server.js:1932-1956
GetServerInfo(server, apiFails) ==
  LET c == ToolCall("get_server_info", server, Undefined, Undefined, apiFails)
      r == IF requireDiscordClient.tag = "throw" THEN NoResult
           ELSE findGuild(server, apiFails)
  IN  Finish(c, r, respond(r))

\* case "get_channel_info", server.js:2763-2800
GetChannelInfo(server, channel, apiFails) ==
  LET c == ToolCall("get_channel_info", server, channel, Undefined, apiFails)
      r == IF requireDiscordClient.tag = "throw" THEN NoResult
           ELSE findChannel(channel, server, apiFails, apiFails)
  IN  Finish(c, r, respond(r))

\* case "list_category_channels", server.js:1775-1808
ListCategoryChannels(server, category, apiFails) ==
  LET c == ToolCall("list_category_channels", server, Undefined, category, apiFails)
  IN  Finish(c, categoryResolution(c), categoryResponse(c))

\* case "read_category_channels", server.js:1810-1869: a channel whose page
\* fetch fails is skipped (inner try/catch), so nothing after the
\* resolution throws
ReadCategoryChannels(server, category, apiFails) ==
  LET c == ToolCall("read_category_channels", server, Undefined, category, apiFails)
  IN  Finish(c, categoryResolution(c), categoryResponse(c))

\* default branch of the switch, server.js:2802-2803: the Error is thrown
\* inside the try block
UnknownTool ==
  LET c == ToolCall("unknown_tool", Undefined, Undefined, Undefined, FALSE)
  IN  Finish(c, NoResult,
             IF requireDiscordClient.tag = "throw"
             THEN Unhandled(requireDiscordClient.error)
             ELSE ErrorResponse(Error(2803, "UnknownTool", FALSE, {}, {})))

\* The response has been delivered; the handler is ready for the next call.
Respond ==
  /\ pc = "responded"
  /\ pc' = "idle"
  /\ call' = NoCall
  /\ result' = NoResult
  /\ response' = NoResponse
  /\ UNCHANGED <<readVars, pairVars, posted, mainVars>>
  /\ UNCHANGED <<discordClient, guilds, channels>>
  /\ UNCHANGED bulkVars

---------------------------------------------------------------------------
(* Reachable worlds.  Guild and channel IDs are unique; a guild channel    *)
(* belongs to a guild of the cache.                                        *)

RECURSIVE GuildCachesUpTo(_)
GuildCachesUpTo(i) ==
  IF i = 0 THEN {{}}
  ELSE LET prev == GuildCachesUpTo(i - 1)
       IN  prev \cup {w \cup {Guild(i, n)} : w \in prev, n \in GuildNames}

\* every cache of at most MaxGuilds guilds
GuildCaches == GuildCachesUpTo(MaxGuilds)

\* the caches under which channel and category resolution are explored
ScopeCaches ==
  {{}, {Guild(1, <<"G">>)}, {Guild(1, <<"G">>), Guild(2, <<"1", "1">>)}}

\* The channels that may carry the i-th ID: the first one (the only ID among
\* the identifiers tried) in any guild or as a DM channel, the others in the
\* first guild.
ChannelsWithId(i, gs) ==
  IF i = 1
  THEN {Channel(1, g.id, n, t) : g \in gs, n \in ChannelNames, t \in ChannelTypes}
       \cup {Channel(1, Undefined, Undefined, "DM")}
  ELSE {Channel(i, g.id, n, t) :
          g \in {x \in gs : x.id = Snowflake(1)}, n \in ChannelNames, t \in ChannelTypes}

RECURSIVE ChannelSetsUpTo(_, _)
ChannelSetsUpTo(i, gs) ==
  IF i = 0 THEN {{}}
  ELSE LET prev == ChannelSetsUpTo(i - 1, gs)
       IN  prev \cup {w \cup {c} : w \in prev, c \in ChannelsWithId(i, gs)}

ChannelSets(gs) == ChannelSetsUpTo(MaxChannels, gs)

BulkIdle ==
  /\ source = 0
  /\ total_limit = 0
  /\ unlimited = FALSE
  /\ bpc = "off"
  /\ allMessages = <<>>
  /\ before = 0
  /\ remainingLimit = 0
  /\ batchLimit = 0
  /\ pages = <<>>

HandlerIdle ==
  /\ pc = "idle"
  /\ call = NoCall
  /\ result = NoResult
  /\ response = NoResponse

\* read_messages is not running
NoFetchOptions == [limit |-> 0, before |-> 0, after |-> 0, around |-> 0]

ReadIdle ==
  /\ rpc = "off"
  /\ fetchOptions = NoFetchOptions
  /\ messageList = <<>>
  /\ fetches = 0

\* main() has connected the tool server: login resolved, 'ready' fired and
\* its listener of server.js:45 ran
MainConnected ==
  /\ mpc = "connected"
  /\ readyFired = TRUE
  /\ listeners = {}
  /\ registered = {"store"}

\* An invocation slot in which no read_messages_bulk run is active
NoRun == [bpc |-> "off", channel |-> "none", total_limit |-> 0,
          unlimited |-> FALSE, allMessages |-> <<>>, before |-> 0,
          remainingLimit |-> 0, batchLimit |-> 0, pages |-> <<>>,
          response |-> NoResponse]

\* The invocation slots and the channels that their runs read
Slots == {1, 2}
PairChannels == {"general", "random"}

PairIdle ==
  /\ runs = [i \in Slots |-> NoRun]
  /\ sources = [c \in PairChannels |-> 0]

\* The state in which the tool server starts to answer calls: main connects
\* it only after the ready event has set discordClient (server.js:2836-2846).
Init ==
  /\ discordClient = "client"
  /\ guilds \in ScopeCaches
  /\ channels \in ChannelSets(guilds)
  /\ HandlerIdle
  /\ BulkIdle
  /\ ReadIdle
  /\ MainConnected
  /\ posted = 0
  /\ PairIdle

Next ==
  \/ \E s \in ScopeArgs, f \in BOOLEAN : GetServerInfo(s, f)
  \/ \E s \in ScopeArgs, c \in ChannelArgs, f \in BOOLEAN : GetChannelInfo(s, c, f)
  \/ \E s \in ScopeArgs, c \in CategoryArgs, f \in BOOLEAN : ListCategoryChannels(s, c, f)
  \/ \E s \in ScopeArgs, c \in CategoryArgs, f \in BOOLEAN : ReadCategoryChannels(s, c, f)
  \/ UnknownTool
  \/ Respond

Spec == Init /\ [][Next]_vars

\* Server resolution alone, over every guild cache.
InitGuild ==
  /\ discordClient = "client"
  /\ guilds \in GuildCaches
  /\ channels = {}
  /\ HandlerIdle
  /\ BulkIdle
  /\ ReadIdle
  /\ MainConnected
  /\ posted = 0
  /\ PairIdle

NextGuild ==
  \/ \E s \in ServerArgs, f \in BOOLEAN : GetServerInfo(s, f)
  \/ Respond

SpecGuild == InitGuild /\ [][NextGuild]_vars

---------------------------------------------------------------------------
(* read_messages_bulk, server.js:1692-1772.  The channel holds the         *)
(* messages with IDs 1..source, a larger ID being a newer message; a page  *)
(* fetch is a suspension point, so issuing it and receiving its page are   *)
(* separate steps.                                                         *)

MaxMessages == 1000

\* The ceiling of one page fetch (server.js:1705-1706)
PageCeiling == 100

\* JavaScript's Infinity: greater than every count, never decremented
Infinity == 1000000000

Min(a, b) == IF a < b THEN a ELSE b

\* ReadMessagesBulkSchema.parse, server.js:263-266: total_limit >= 1
bulkArgsValid(tl) == tl >= 1

\* server.js:1699-1700
initialRemaining(unl, tl) == IF unl \/ tl = -1 THEN Infinity ELSE tl

\* Mutant: Math.min is dropped, a batch asks for all that remains.
nextBatchLimit_noCeiling(unl, tl, remaining) ==
  IF unl \/ tl = -1 THEN PageCeiling ELSE remaining

\* Mutant: every batch asks for a full page, whatever remains.
nextBatchLimit_alwaysFull(unl, tl, remaining) == PageCeiling

\* server.js:1703-1706
nextBatchLimit(unl, tl, remaining) ==
  IF unl \/ tl = -1 THEN PageCeiling ELSE Min(remaining, PageCeiling)

\* Mutant: the before option is dropped, every fetch returns the newest page.
fetchPage_ignoresBefore(limit, bef) ==
  [i \in 1..Min(limit, source) |-> source + 1 - i]

\* channel.messages.fetch({limit, before}) on a channel holding the messages
\* 1..src: the limit newest messages older than before (0: no before
\* given), newest first
messagesFetch(src, limit, bef) ==
  LET top == IF bef = 0 THEN src ELSE bef - 1
      n == Min(limit, top)
  IN  [i \in 1..n |-> top + 1 - i]

\* the page fetch of the single run, server.js:1707-1711
fetchPage(limit, bef) == messagesFetch(source, limit, bef)

\* Mutant: the cursor is taken from the newest message of the batch.
nextCursor_newest(messageArray) == messageArray[1]

\* server.js:1724: the ID of the oldest (last) message of the batch
nextCursor(messageArray) == messageArray[Len(messageArray)]

\* Mutant: the test of server.js:1727 is dropped, only an empty page or the
\* target ends the run.
reachedEnd_never(got, limit) == FALSE

\* Mutant: "<=" instead of "<", so that a full page ends the run too.
reachedEnd_onFullPage(got, limit) == got <= limit

\* server.js:1727: fewer messages than requested
reachedEnd(got, limit) == got < limit

\* Mutant: the fetch is not awaited, the loop goes on while it is in flight.
mayIssueFetch_noAwait(position) == position \in {"loop", "await"}

\* server.js:1710: the loop body awaits its fetch, so the next iteration
\* starts only at the loop head, after the page has been handled
mayIssueFetch(position) == position = "loop"

\* Mutant: the rejection is caught inside the handler and what has been
\* accumulated is returned.
fetchRejected_partial(e) == [kind |-> "content", isError |-> FALSE, error |-> NoError]

\* server.js:2819-2827: a rejected page fetch is not caught inside the case
\* block; the handler's catch block builds the error response
fetchRejected(e) == ErrorResponse(e)

\* The handler is entered: arguments parsed, channel resolved, the loop's
\* variables initialised (server.js:1693-1700).
BulkStart(tl, unl) ==
  /\ bpc = "off"
  /\ total_limit' = tl
  /\ unlimited' = unl
  /\ allMessages' = <<>>
  /\ before' = 0
  /\ pages' = <<>>
  /\ batchLimit' = 0
  /\ IF bulkArgsValid(tl)
     THEN /\ remainingLimit' = initialRemaining(unl, tl)
          /\ bpc' = "loop"
          /\ response' = NoResponse
     ELSE /\ remainingLimit' = 0
          /\ bpc' = "done"
          /\ response' = InvalidArguments
  /\ UNCHANGED <<readVars, pairVars, posted, mainVars>>
  /\ UNCHANGED <<discordClient, guilds, channels, pc, call, result, source>>

\* while (remainingLimit > 0): compute the batch and issue the page fetch
\* (server.js:1702-1710)
BulkFetch ==
  /\ mayIssueFetch(bpc)
  /\ remainingLimit > 0
  /\ batchLimit' = nextBatchLimit(unlimited, total_limit, remainingLimit)
  /\ pages' = Append(pages, [limit |-> batchLimit', before |-> before, got |-> -1])
  /\ bpc' = "await"
  /\ UNCHANGED <<readVars, pairVars, posted, mainVars>>
  /\ UNCHANGED <<discordClient, guilds, channels, pc, call, result, response,
                 source, total_limit, unlimited, allMessages, before, remainingLimit>>

\* The page arrives (server.js:1711-1729)
BulkPage ==
  /\ bpc = "await"
  /\ LET messageArray == fetchPage(batchLimit, before)
         got == Len(messageArray)
     IN  /\ pages' = [pages EXCEPT ![Len(pages)].got = got]
         /\ IF got = 0
            THEN /\ bpc' = "return"
                 /\ UNCHANGED <<allMessages, remainingLimit, before>>
            ELSE /\ allMessages' = allMessages \o messageArray
                 /\ remainingLimit' =
                      IF ~unlimited /\ total_limit # -1
                      THEN remainingLimit - got ELSE remainingLimit
                 /\ before' = nextCursor(messageArray)
                 /\ bpc' = IF reachedEnd(got, batchLimit) THEN "return" ELSE "loop"
  /\ UNCHANGED <<readVars, pairVars, posted, mainVars>>
  /\ UNCHANGED <<discordClient, guilds, channels, pc, call, result, response,
                 source, total_limit, unlimited, batchLimit>>

\* The page fetch is rejected: the Error reaches the handler's catch block
\* (server.js:2819-2827).
BulkFetchRejected ==
  /\ bpc = "await"
  /\ bpc' = "done"
  /\ response' = fetchRejected(Error(1710, "FetchRejected", FALSE, {}, {}))
  /\ UNCHANGED <<readVars, pairVars, posted, mainVars>>
  /\ UNCHANGED <<discordClient, guilds, channels, pc, call, result,
                 source, total_limit, unlimited, allMessages, before,
                 remainingLimit, batchLimit, pages>>

\* The loop condition fails (server.js:1702)
BulkLoopExit ==
  /\ bpc = "loop"
  /\ ~(remainingLimit > 0)
  /\ bpc' = "return"
  /\ UNCHANGED <<readVars, pairVars, posted, mainVars>>
  /\ UNCHANGED <<discordClient, guilds, channels, pc, call, result, response,
                 source, total_limit, unlimited, allMessages, before,
                 remainingLimit, batchLimit, pages>>

\* The accumulated messages are formatted and returned (server.js:1732-1771)
BulkReturn ==
  /\ bpc = "return"
  /\ bpc' = "done"
  /\ response' = Success
  /\ UNCHANGED <<readVars, pairVars, posted, mainVars>>
  /\ UNCHANGED <<discordClient, guilds, channels, pc, call, result,
                 source, total_limit, unlimited, allMessages, before,
                 remainingLimit, batchLimit, pages>>

\* The response is delivered; nothing of the run is kept.
BulkRespond ==
  /\ bpc = "done"
  /\ bpc' = "off"
  /\ response' = NoResponse
  /\ total_limit' = 0
  /\ unlimited' = FALSE
  /\ allMessages' = <<>>
  /\ before' = 0
  /\ remainingLimit' = 0
  /\ batchLimit' = 0
  /\ pages' = <<>>
  /\ UNCHANGED <<readVars, pairVars, posted, mainVars>>
  /\ UNCHANGED <<discordClient, guilds, channels, pc, call, result, source>>

\* Arguments of read_messages_bulk: finite targets, and the unlimited flag
Targets == {1, 99, 100, 101, 200, 237, 250, 1000}
BulkArgs ==
  {<<tl, FALSE>> : tl \in Targets \cup {-1}} \cup {<<200, TRUE>>, <<1, TRUE>>, <<-1, TRUE>>}

InitBulk ==
  /\ discordClient = "client"
  /\ guilds = {Guild(1, <<"G">>)}
  /\ channels = {Channel(1, Snowflake(1), <<"G">>, "GuildText")}
  /\ HandlerIdle
  /\ ReadIdle
  /\ MainConnected
  /\ posted = 0
  /\ PairIdle
  /\ source \in 0..MaxMessages
  /\ total_limit = 0
  /\ unlimited = FALSE
  /\ bpc = "off"
  /\ allMessages = <<>>
  /\ before = 0
  /\ remainingLimit = 0
  /\ batchLimit = 0
  /\ pages = <<>>

NextBulk ==
  \/ \E a \in BulkArgs : BulkStart(a[1], a[2])
  \/ BulkFetch
  \/ BulkPage
  \/ BulkFetchRejected
  \/ BulkLoopExit
  \/ BulkReturn
  \/ BulkRespond

SpecBulk == InitBulk /\ [][NextBulk]_vars

---------------------------------------------------------------------------
(* read_messages, server.js:1623-1690: one page fetch.  The channel holds  *)
(* the messages 1..source; a hint is a message ID, 0 standing for a hint   *)
(* that is absent or the empty string.                                     *)

\* ReadMessagesSchema.parse, server.js:239: limit >= 1
readArgsValid(limit) == limit >= 1

\* server.js:1629-1632: a hint is passed on only when it is truthy
buildFetchOptions(limit, b, a, x) ==
  [limit |-> limit, before |-> b, after |-> a, around |-> x]

\* The hints of one request are mutually exclusive for the platform: when
\* several are passed, which of them it honours is not determined here.
hintsHonoured(o) ==
  IF o.before = 0 /\ o.after = 0 /\ o.around = 0 THEN {"none"}
  ELSE {h \in {"before", "after", "around"} : o[h] # 0}

Max(a, b) == IF a > b THEN a ELSE b

\* The inclusive ID range low..high, newest first
Range(low, high) ==
  IF high < low THEN <<>> ELSE [i \in 1..(high - low + 1) |-> high + 1 - i]

\* channelObj.messages.fetch(fetchOptions) when resolved, server.js:1634: at
\* most PageCeiling messages, selected by the hint h that is honoured
readPage(o, h) ==
  LET n == Min(o.limit, PageCeiling) IN
  IF h = "before" THEN messagesFetch(source, n, o.before)
  ELSE IF h = "after" THEN Range(o.after + 1, Min(source, o.after + n))
  ELSE IF h = "around"
  THEN LET low == Max(1, o.around - (n \div 2))
       IN  Range(low, Min(source, low + n - 1))
  ELSE messagesFetch(source, n, 0)

\* Mutant: another page is fetched as long as the page is full.
afterReadPage_untilShort(messages) ==
  IF Len(messages) < Min(fetchOptions.limit, PageCeiling) THEN "done" ELSE "fetch"

\* server.js:1636-1689: the page is formatted and returned; no loop
afterReadPage(messages) == "done"

\* The handler is entered: arguments parsed, findChannel awaited
\* (server.js:1624-1626); found: whether channel resolution returns.
ReadStart(limit, b, a, x, found) ==
  /\ rpc = "off"
  /\ messageList' = <<>>
  /\ fetches' = 0
  /\ IF ~readArgsValid(limit)
     THEN /\ rpc' = "done"
          /\ response' = InvalidArguments
          /\ fetchOptions' = NoFetchOptions
     ELSE IF ~found
     THEN /\ rpc' = "done"
          /\ response' = ErrorResponse(Error(1626, "ResolutionFailed", FALSE, {}, {}))
          /\ fetchOptions' = NoFetchOptions
     ELSE /\ rpc' = "fetch"
          /\ response' = NoResponse
          /\ fetchOptions' = buildFetchOptions(limit, b, a, x)
  /\ UNCHANGED <<resolverVars, source, loopVars, pairVars, posted, mainVars>>

\* The page fetch is issued (server.js:1634)
ReadFetch ==
  /\ rpc = "fetch"
  /\ fetches' = fetches + 1
  /\ rpc' = "await"
  /\ UNCHANGED <<resolverVars, response, source, loopVars, pairVars, posted, mainVars,
                 fetchOptions, messageList>>

\* The page arrives and the response is built (server.js:1636-1689)
ReadPage ==
  /\ rpc = "await"
  /\ \E h \in hintsHonoured(fetchOptions) :
       LET messages == readPage(fetchOptions, h)
       IN  /\ messageList' = messages
           /\ rpc' = afterReadPage(messages)
           /\ response' = Success
  /\ UNCHANGED <<resolverVars, source, loopVars, pairVars, posted, mainVars, fetchOptions, fetches>>

\* The page fetch is rejected (a limit above the ceiling is one reason):
\* the Error reaches the handler's catch block (server.js:2819-2827).
ReadFetchRejected ==
  /\ rpc = "await"
  /\ rpc' = "done"
  /\ response' = ErrorResponse(Error(1634, "FetchRejected", FALSE, {}, {}))
  /\ UNCHANGED <<resolverVars, source, loopVars, pairVars, posted, mainVars,
                 fetchOptions, messageList, fetches>>

\* The response is delivered; nothing of the invocation is kept.
ReadRespond ==
  /\ rpc = "done"
  /\ rpc' = "off"
  /\ response' = NoResponse
  /\ fetchOptions' = NoFetchOptions
  /\ messageList' = <<>>
  /\ fetches' = 0
  /\ UNCHANGED <<resolverVars, source, loopVars, pairVars, posted, mainVars>>

\* Channel sizes, limits and hints tried
ReadSources == {0, 1, 50, 99, 100, 101, 150, 250}
ReadLimits == {0, 1, 50, 100, 101, 200}
ReadHints == {0, 1, 60, 120}

InitRead ==
  /\ discordClient = "client"
  /\ guilds = {Guild(1, <<"G">>)}
  /\ channels = {Channel(1, Snowflake(1), <<"G">>, "GuildText")}
  /\ HandlerIdle
  /\ ReadIdle
  /\ MainConnected
  /\ posted = 0
  /\ PairIdle
  /\ source \in ReadSources
  /\ total_limit = 0
  /\ unlimited = FALSE
  /\ bpc = "off"
  /\ allMessages = <<>>
  /\ before = 0
  /\ remainingLimit = 0
  /\ batchLimit = 0
  /\ pages = <<>>

NextRead ==
  \/ \E l \in ReadLimits, b \in ReadHints, a \in ReadHints, x \in ReadHints,
        found \in BOOLEAN : ReadStart(l, b, a, x, found)
  \/ ReadFetch
  \/ ReadPage
  \/ ReadFetchRejected
  \/ ReadRespond

SpecRead == InitRead /\ [][NextRead]_vars

---------------------------------------------------------------------------
(* Two read_messages_bulk invocations in flight at once.  The handler is   *)
(* an async function: allMessages, before, remainingLimit and batchLimit   *)
(* are declared inside the case block (server.js:1697-1703), one set per   *)
(* invocation, and an invocation yields at its await of the page fetch.    *)

\* Mutant: the cursor is one variable of the module, written by the first
\* slot's run and read by both.
cursorOf_shared(rs, i) == rs[1].before

\* server.js:1698, 1708: the before that invocation i passes to its fetch is
\* the one declared by its own case block
cursorOf(rs, i) == rs[i].before

\* server.js:1693-1700
PairStart(i, ch, tl, unl) ==
  /\ runs[i].bpc = "off"
  /\ runs' = [runs EXCEPT ![i] =
       IF bulkArgsValid(tl)
       THEN [bpc |-> "loop", channel |-> ch, total_limit |-> tl,
             unlimited |-> unl, allMessages |-> <<>>, before |-> 0,
             remainingLimit |-> initialRemaining(unl, tl), batchLimit |-> 0,
             pages |-> <<>>, response |-> NoResponse]
       ELSE [NoRun EXCEPT !.bpc = "done", !.channel = ch, !.total_limit = tl,
                          !.unlimited = unl, !.response = InvalidArguments]]
  /\ UNCHANGED <<resolverVars, response, source, loopVars, readVars, sources,
                 posted, mainVars>>

\* server.js:1702-1710
PairFetch(i) ==
  LET r == runs[i]
      limit == nextBatchLimit(r.unlimited, r.total_limit, r.remainingLimit)
  IN  /\ r.bpc = "loop"
      /\ r.remainingLimit > 0
      /\ runs' = [runs EXCEPT ![i] =
           [r EXCEPT !.batchLimit = limit,
                     !.pages = Append(r.pages, [limit |-> limit,
                                                before |-> cursorOf(runs, i),
                                                got |-> -1]),
                     !.bpc = "await"]]
      /\ UNCHANGED <<resolverVars, response, source, loopVars, readVars, sources,
                 posted, mainVars>>

\* server.js:1711-1729: the page of the fetch issued last arrives
PairPage(i) ==
  LET r == runs[i]
      issued == r.pages[Len(r.pages)]
      messageArray == messagesFetch(sources[r.channel], issued.limit, issued.before)
      got == Len(messageArray)
      logged == [r.pages EXCEPT ![Len(r.pages)].got = got]
  IN  /\ r.bpc = "await"
      /\ runs' = [runs EXCEPT ![i] =
           IF got = 0
           THEN [r EXCEPT !.pages = logged, !.bpc = "return"]
           ELSE [r EXCEPT
                   !.pages = logged,
                   !.allMessages = r.allMessages \o messageArray,
                   !.remainingLimit =
                      IF ~r.unlimited /\ r.total_limit # -1
                      THEN r.remainingLimit - got ELSE r.remainingLimit,
                   !.before = nextCursor(messageArray),
                   !.bpc = IF reachedEnd(got, r.batchLimit) THEN "return" ELSE "loop"]]
      /\ UNCHANGED <<resolverVars, response, source, loopVars, readVars, sources,
                 posted, mainVars>>

\* server.js:2819-2827
PairFetchRejected(i) ==
  /\ runs[i].bpc = "await"
  /\ runs' = [runs EXCEPT ![i].bpc = "done",
                          ![i].response =
                             ErrorResponse(Error(1710, "FetchRejected", FALSE, {}, {}))]
  /\ UNCHANGED <<resolverVars, response, source, loopVars, readVars, sources,
                 posted, mainVars>>

\* server.js:1702
PairLoopExit(i) ==
  /\ runs[i].bpc = "loop"
  /\ ~(runs[i].remainingLimit > 0)
  /\ runs' = [runs EXCEPT ![i].bpc = "return"]
  /\ UNCHANGED <<resolverVars, response, source, loopVars, readVars, sources,
                 posted, mainVars>>

\* server.js:1732-1771
PairReturn(i) ==
  /\ runs[i].bpc = "return"
  /\ runs' = [runs EXCEPT ![i].bpc = "done", ![i].response = Success]
  /\ UNCHANGED <<resolverVars, response, source, loopVars, readVars, sources,
                 posted, mainVars>>

\* The response is delivered and the invocation's variables are gone; the
\* slot is free for the next invocation.
PairRespond(i) ==
  /\ runs[i].bpc = "done"
  /\ runs' = [runs EXCEPT ![i] = NoRun]
  /\ UNCHANGED <<resolverVars, response, source, loopVars, readVars, sources,
                 posted, mainVars>>

\* Channel sizes and arguments tried
PairSources == {0, 100, 250}
PairArgs == {<<1, FALSE>>, <<150, FALSE>>, <<200, TRUE>>, <<-1, FALSE>>}

InitPair ==
  /\ discordClient = "client"
  /\ guilds = {Guild(1, <<"G">>)}
  /\ channels = {Channel(1, Snowflake(1), <<"G">>, "GuildText"),
                 Channel(2, Snowflake(1), <<"g", "#">>, "GuildText")}
  /\ HandlerIdle
  /\ BulkIdle
  /\ ReadIdle
  /\ MainConnected
  /\ posted = 0
  /\ runs = [i \in Slots |-> NoRun]
  /\ sources \in [PairChannels -> PairSources]

NextPair ==
  \/ \E i \in Slots, ch \in PairChannels, a \in PairArgs : PairStart(i, ch, a[1], a[2])
  \/ \E i \in Slots : PairFetch(i)
  \/ \E i \in Slots : PairPage(i)
  \/ \E i \in Slots : PairFetchRejected(i)
  \/ \E i \in Slots : PairLoopExit(i)
  \/ \E i \in Slots : PairReturn(i)
  \/ \E i \in Slots : PairRespond(i)

SpecPair == InitPair /\ [][NextPair]_vars

---------------------------------------------------------------------------
(* read_messages_bulk on a channel to which messages are being posted.  A  *)
(* new message gets the next ID, so it is newer than every message held.   *)

MaxPosts == 2

\* Somebody posts a message to the channel.
PostMessage ==
  /\ posted < MaxPosts
  /\ posted' = posted + 1
  /\ source' = source + 1
  /\ UNCHANGED <<resolverVars, response, loopVars, readVars, pairVars, mainVars>>

MaxLive == 250

\* Channel sizes tried
LiveSources == 0..MaxLive

InitLive ==
  /\ discordClient = "client"
  /\ guilds = {Guild(1, <<"G">>)}
  /\ channels = {Channel(1, Snowflake(1), <<"G">>, "GuildText")}
  /\ HandlerIdle
  /\ ReadIdle
  /\ MainConnected
  /\ posted = 0
  /\ PairIdle
  /\ source \in LiveSources
  /\ total_limit = 0
  /\ unlimited = FALSE
  /\ bpc = "off"
  /\ allMessages = <<>>
  /\ before = 0
  /\ remainingLimit = 0
  /\ batchLimit = 0
  /\ pages = <<>>

NextLive ==
  \/ \E a \in BulkArgs : BulkStart(a[1], a[2])
  \/ BulkFetch
  \/ BulkPage
  \/ BulkFetchRejected
  \/ BulkLoopExit
  \/ BulkReturn
  \/ BulkRespond
  \/ PostMessage

\* The event loop runs every continuation that is ready, and a page fetch
\* that has been issued settles: it resolves or it is rejected (the REST
\* layer gives up on a request after its timeout).  Nothing is assumed
\* about new invocations or about posts.
SpecLive ==
  /\ InitLive
  /\ [][NextLive]_vars
  /\ WF_vars(BulkFetch)
  /\ WF_vars(BulkPage \/ BulkFetchRejected)
  /\ WF_vars(BulkLoopExit)
  /\ WF_vars(BulkReturn)

---------------------------------------------------------------------------
(* Startup, server.js:42-48 and 2831-2848.  When the module is loaded the  *)
(* listener of line 45 is registered and main() calls client.login; the    *)
(* 'ready' event may be emitted before or after the login call resolves.   *)
(* The request handler is reached only through the transport, that is,     *)
(* after server.connect.                                                   *)

\* Mutant: the wait does not look at the client reference and always
\* registers its listener.
clientIsSet_never == FALSE

\* Mutant: the wait resolves at once, whether or not 'ready' has fired.
clientIsSet_always == TRUE

\* server.js:2837: if (discordClient)
clientIsSet == discordClient # "null"

\* await client.login resolves and main runs the executor of the promise it
\* awaits next (server.js:2833-2842), in one job of the event loop
LoginResolves ==
  /\ mpc = "login"
  /\ IF clientIsSet
     THEN /\ mpc' = "resolved"
          /\ UNCHANGED <<listeners, registered>>
     ELSE /\ mpc' = "wait"
          /\ listeners' = listeners \cup {"resolve"}
          /\ registered' = registered \cup {"resolve"}
  /\ UNCHANGED <<resolverVars, response, source, loopVars, readVars, pairVars,
                 posted, readyFired>>

\* client.login rejects: main().catch exits the process (server.js:2859-2862)
LoginRejected ==
  /\ mpc = "login"
  /\ mpc' = "exit"
  /\ UNCHANGED <<resolverVars, response, source, loopVars, readVars, pairVars,
                 posted, readyFired, listeners, registered>>

\* The client emits 'ready', once: every once-listener registered runs and
\* is removed; "store" is the listener of server.js:45-48, "resolve" the one
\* of line 2840.
ReadyEvent ==
  /\ ~readyFired
  /\ mpc \in {"login", "wait"}
  /\ readyFired' = TRUE
  /\ discordClient' = IF "store" \in listeners THEN "client" ELSE discordClient
  /\ mpc' = IF "resolve" \in listeners THEN "resolved" ELSE mpc
  /\ listeners' = {}
  /\ UNCHANGED <<guilds, channels, pc, call, result, response, source,
                 loopVars, readVars, pairVars, posted, registered>>

\* await server.connect(transport), server.js:2845-2846
Connect ==
  /\ mpc = "resolved"
  /\ mpc' = "connected"
  /\ UNCHANGED <<resolverVars, response, source, loopVars, readVars, pairVars,
                 posted, readyFired, listeners, registered>>

\* A tool call arrives over the transport and is handled.
Dispatch(server, apiFails) ==
  /\ mpc = "connected"
  /\ GetServerInfo(server, apiFails)

\* Its response is sent back over the transport.
Deliver ==
  /\ mpc = "connected"
  /\ Respond

\* SIGINT, server.js:2851-2855: client.destroy() and process.exit
Shutdown ==
  /\ mpc # "exit"
  /\ mpc' = "exit"
  /\ UNCHANGED <<resolverVars, response, source, loopVars, readVars, pairVars,
                 posted, readyFired, listeners, registered>>

InitMain ==
  /\ discordClient = "null"
  /\ guilds \in GuildCaches
  /\ channels = {}
  /\ HandlerIdle
  /\ BulkIdle
  /\ ReadIdle
  /\ PairIdle
  /\ posted = 0
  /\ mpc = "login"
  /\ readyFired = FALSE
  /\ listeners = {"store"}
  /\ registered = {"store"}

NextMain ==
  \/ LoginResolves
  \/ LoginRejected
  \/ ReadyEvent
  \/ Connect
  \/ \E s \in ServerArgs, f \in BOOLEAN : Dispatch(s, f)
  \/ Deliver
  \/ Shutdown

SpecMain == InitMain /\ [][NextMain]_vars

\* The login call settles, the event loop runs main's continuation, and the
\* client emits 'ready' unless the process has ended.  Nothing is assumed
\* about tool calls or signals.
SpecMainFair ==
  /\ InitMain
  /\ [][NextMain]_vars
  /\ WF_vars(LoginResolves \/ LoginRejected)
  /\ WF_vars(ReadyEvent)
  /\ WF_vars(Connect)

---------------------------------------------------------------------------
(* Properties *)

EqIgnoreCase(a, b) == toLowerCase(a) = toLowerCase(b)

CategoryTools == {"list_category_channels", "read_category_channels"}

\* A resolver has been called and has ended.
Resolved == pc = "responded" /\ result.tag # "none"

\* The server in whose scope the call's channel or category is looked up.
ScopeOf(c) == findGuild(c.server, c.apiFails)

\* C1: every resolution call ends either by returning exactly one entity of
\* the cache it searches (never undefined, never a collection) or by
\* throwing an Error.
C1_OneEntityOrFailure ==
  Resolved =>
    \/ /\ result.tag = "return"
       /\ result.error = NoError
       /\ result.value # NoValue
       /\ call.name = "get_server_info" => result.value \in guilds
       /\ call.name # "get_server_info" => result.value \in channels
    \/ /\ result.tag = "throw"
       /\ result.error # NoError
       /\ result.value = NoValue

\* A channel was resolved by its name (not by its ID).
C1_Witness ==
  /\ Resolved
  /\ call.name = "get_channel_info"
  /\ result.tag = "return"
  /\ result.value.id # call.channel

\* C2: with no identifier, server resolution returns the server iff the bot
\* is in exactly one; otherwise it fails AmbiguousScope and the failure lists
\* the names of all servers.
C2_NoIdentifier ==
  Resolved /\ call.name = "get_server_info" /\ Falsy(call.server) =>
    /\ Cardinality(guilds) = 1 <=> result.tag = "return"
    /\ result.tag = "return" => guilds = {result.value}
    /\ result.tag = "throw" =>
         /\ result.error.kind = "AmbiguousScope"
         /\ result.error.listsNames
         /\ result.error.names = {g.name : g \in guilds}

\* Two servers, no identifier: the failure names both.
C2_Witness ==
  /\ Resolved /\ call.name = "get_server_info" /\ call.server = Undefined
  /\ Cardinality(guilds) = 2
  /\ result.tag = "throw"
  /\ Cardinality(result.error.names) = 2

\* C3: with an identifier, the server with that ID is returned when the ID
\* lookup succeeds; only otherwise the identifier is matched, ignoring case,
\* against all server names: none fails NotFound listing all names, several
\* fail Ambiguous listing name and ID of each match, one is returned.
C3_IdThenName ==
  Resolved /\ call.name = "get_server_info" /\ ~Falsy(call.server) =>
    LET byId == {g \in guilds : g.id = call.server /\ ~call.apiFails}
        byName == {g \in guilds : EqIgnoreCase(g.name, call.server)}
    IN  IF byId # {} THEN result.tag = "return" /\ result.value \in byId
        ELSE IF byName = {} THEN
          /\ result.tag = "throw" /\ result.error.kind = "NotFound"
          /\ result.error.listsNames
          /\ result.error.names = {g.name : g \in guilds}
        ELSE IF Cardinality(byName) > 1 THEN
          /\ result.tag = "throw" /\ result.error.kind = "Ambiguous"
          /\ result.error.names = {g.name : g \in byName}
          /\ result.error.ids = {g.id : g \in byName}
        ELSE result.tag = "return" /\ byName = {result.value}

\* The identifier is the ID of one server and the name of another: the one
\* with that ID is returned.
C3_Witness ==
  /\ Resolved /\ call.name = "get_server_info" /\ ~Falsy(call.server)
  /\ \E g \in guilds : g.name = call.server /\ g.id # call.server
  /\ result.tag = "return"
  /\ result.value.id = call.server

\* C4 (as claimed): whenever the identifier is not resolved by ID and matches,
\* ignoring case, the names of two or more candidates in scope (servers;
\* text channels of the supplied server; categories of the server), the
\* resolution fails Ambiguous and the failure lists the ID of every match.
C4_Candidates ==
  IF call.name = "get_server_info"
  THEN {g \in guilds : EqIgnoreCase(g.name, call.server)}
  ELSE IF call.name = "get_channel_info"
  THEN {c \in guildChannels(ScopeOf(call).value.id) :
          isTextBased(c) /\ EqIgnoreCase(c.name, call.channel)}
  ELSE {c \in guildChannels(ScopeOf(call).value.id) :
          c.type = "GuildCategory" /\ EqIgnoreCase(c.name, call.category)}

C4_Identifier ==
  IF call.name = "get_server_info" THEN call.server
  ELSE IF call.name = "get_channel_info" THEN call.channel
  ELSE call.category

C4_AmbiguityNeverSilent ==
  ( /\ Resolved
    /\ call.name = "get_server_info" => ~Falsy(call.server)
    /\ call.name = "get_channel_info" => ~Falsy(call.server)
    /\ call.name # "get_server_info" => ScopeOf(call).tag = "return"
    /\ ~(result.tag = "return" /\ result.value.id = C4_Identifier)
    /\ Cardinality(C4_Candidates) >= 2 )
  => /\ result.tag = "throw"
     /\ result.error.kind = "Ambiguous"
     /\ {c.id : c \in C4_Candidates} \subseteq result.error.ids

\* C4, restricted to the calls whose ID lookup throws: this much the code
\* does guarantee (the violation of C4 needs a fetched but unusable entity).
C4_WhenIdLookupThrows ==
  ( /\ Resolved
    /\ call.name = "get_server_info" => ~Falsy(call.server)
    /\ call.name = "get_channel_info" => ~Falsy(call.server)
    /\ call.name # "get_server_info" => ScopeOf(call).tag = "return"
    /\ call.name = "get_server_info" =>
         guildsFetch(C4_Identifier, call.apiFails).tag = "throw"
    /\ call.name # "get_server_info" =>
         channelsFetch(C4_Identifier, call.apiFails).tag = "throw"
    /\ Cardinality(C4_Candidates) >= 2 )
  => /\ result.tag = "throw"
     /\ result.error.kind = "Ambiguous"
     /\ {c.id : c \in C4_Candidates} \subseteq result.error.ids

\* The identifier names the channel: it is the name, or "#" followed by the
\* name, in any letter case.
NamesChannel(ident, c) ==
  \/ EqIgnoreCase(c.name, ident)
  \/ ident # <<>> /\ Head(ident) = "#" /\ EqIgnoreCase(c.name, Tail(ident))

\* C5 (as claimed): an identifier that names exactly one text-based channel
\* of the resolved server resolves to that channel.
C5_UniqueNameResolves ==
  ( /\ Resolved /\ call.name = "get_channel_info"
    /\ ~Falsy(call.server)
    /\ ScopeOf(call).tag = "return" )
  => LET named == {c \in guildChannels(ScopeOf(call).value.id) :
                     isTextBased(c) /\ NamesChannel(call.channel, c)}
     IN  Cardinality(named) = 1 =>
           result.tag = "return" /\ named = {result.value}

\* C6 (as claimed): with no server identifier and the bot in exactly one
\* server, an identifier that names exactly one text-based channel of that
\* server resolves to that channel.
C6_ServerOptional ==
  ( /\ Resolved /\ call.name = "get_channel_info"
    /\ Falsy(call.server)
    /\ Cardinality(guilds) = 1 )
  => LET named == {c \in channels :
                     /\ \E g \in guilds : c.guild = g.id
                     /\ isTextBased(c) /\ NamesChannel(call.channel, c)}
     IN  Cardinality(named) = 1 =>
           result.tag = "return" /\ named = {result.value}

\* C7 (as claimed): every resolution failure carries the list of the
\* candidates or of the available entities in scope.
C7_FailuresCarryList ==
  Resolved /\ result.tag = "throw" => result.error.listsNames

\* C8: a category tool called with no server identifier while the bot is in
\* no server answers with an error response, never with an exception; when
\* its arguments are valid the response is always the AmbiguousScope failure
\* of server resolution, raised before any upstream lookup is made.
C8_CategoryInNoServer ==
  ( /\ pc = "responded"
    /\ call.name \in CategoryTools
    /\ Falsy(call.server)
    /\ guilds = {} )
  => /\ response.isError
     /\ response.kind # "exception"
     /\ result.calls = <<>>
     /\ categoryArgsValid(call) =>
          /\ result.tag = "throw"
          /\ response = ErrorResponse(Error(71, "AmbiguousScope", TRUE, {}, {}))

C8_Witness ==
  /\ pc = "responded"
  /\ call.name = "read_category_channels"
  /\ call.server = Undefined /\ call.category # Undefined
  /\ guilds = {}
  /\ response.isError

\* The n newest messages of the channel, newest first.
Newest(n) == [i \in 1..n |-> source + 1 - i]

\* A bulk run with valid arguments has left its loop without a rejected fetch.
BulkEnded ==
  /\ bpc \in {"return", "done"}
  /\ bulkArgsValid(total_limit)
  /\ response.kind # "Error"

\* C9: with a finite target T >= 1 and a static source of N messages, bulk
\* retrieval returns exactly the min(T, N) newest messages and answers with a
\* success; the only error of a run with valid arguments is a rejected fetch.
C9_FiniteTarget ==
  /\ BulkEnded /\ ~unlimited =>
       /\ allMessages = Newest(Min(total_limit, source))
       /\ bpc = "done" => response = Success
  /\ bpc = "done" /\ bulkArgsValid(total_limit) /\ response.isError =>
       pages # <<>> /\ pages[Len(pages)].got = -1

\* Target 250 against 237 messages: all 237 are returned, as a success.
C9_Witness ==
  /\ bpc = "done" /\ ~unlimited
  /\ total_limit = 250 /\ source = 237
  /\ Len(allMessages) = 237
  /\ response = Success

\* C10 (as claimed): an unbounded run against 100*k messages makes exactly k
\* page fetches, each returning 100 messages, and returns all the messages
\* without duplicates.
C10_ExactlyKFetches ==
  BulkEnded /\ unlimited /\ source >= PageCeiling /\ source % PageCeiling = 0 =>
    /\ Len(pages) = source \div PageCeiling
    /\ \A i \in DOMAIN pages : pages[i].got = PageCeiling
    /\ allMessages = Newest(source)

\* C10 (amended): an unbounded run against 100*k messages makes exactly k + 1
\* page fetches, the first k returning 100 messages each and the last one
\* none, and returns all the messages, strictly from newer to older.
C10_KPlusOneFetches ==
  BulkEnded /\ unlimited /\ source % PageCeiling = 0 =>
    LET k == source \div PageCeiling IN
    /\ Len(pages) = k + 1
    /\ \A i \in 1..k : pages[i].got = PageCeiling /\ pages[i].limit = PageCeiling
    /\ pages[k + 1].got = 0
    /\ allMessages = Newest(source)
    /\ \A i \in 1..(Len(allMessages) - 1) : allMessages[i] > allMessages[i + 1]

\* 1,000 messages: eleven fetches, the last one empty.
C10_Witness ==
  /\ bpc = "done" /\ unlimited /\ response = Success
  /\ source = 1000
  /\ Len(pages) = 11
  /\ Len(allMessages) = 1000

\* C11 (as claimed): total_limit = -1 without the unlimited flag is accepted
\* and runs as an unbounded retrieval returning every message.
C11_MinusOneIsUnbounded ==
  bpc = "done" /\ total_limit = -1 /\ ~unlimited =>
    response = Success /\ allMessages = Newest(source)

\* C12 (as claimed): with unlimited = true every message of the source is
\* returned, whatever total_limit accompanies the flag (unless a page fetch
\* is rejected).
C12_UnlimitedIgnoresTotalLimit ==
  bpc = "done" /\ unlimited /\ response.kind # "Error" =>
    response = Success /\ allMessages = Newest(source)

\* C13: against a static source the accumulated sequence is strictly
\* decreasing in message ID, also across page boundaries: no message is
\* held twice and no page overlaps an earlier one.
C13_StrictlyOlder ==
  \A i \in 1..(Len(allMessages) - 1) : allMessages[i] > allMessages[i + 1]

\* Three pages have been appended.
C13_Witness ==
  /\ bpc = "done" /\ response = Success
  /\ Len(pages) >= 3
  /\ Len(allMessages) > 2 * PageCeiling

\* The number of messages returned by the first i page fetches.
RECURSIVE GotUpTo(_)
GotUpTo(i) == IF i = 0 THEN 0 ELSE GotUpTo(i - 1) + pages[i].got

\* C20: the cursor is null before the first fetch; after every non-empty
\* page it is the ID of the oldest (last) message of that page; every later
\* fetch is issued with before = the oldest message of the page before it;
\* and each cursor is strictly older than the previous one.
C20_CursorIsOldestOfPage ==
  bpc \in {"loop", "await", "return", "done"} /\ bulkArgsValid(total_limit) =>
    /\ allMessages = <<>> => before = 0
    /\ allMessages # <<>> => before = allMessages[Len(allMessages)]
    /\ pages # <<>> => pages[1].before = 0
    /\ \A i \in 2..Len(pages) :
         /\ pages[i - 1].got > 0
         /\ pages[i].before = allMessages[GotUpTo(i - 1)]
         /\ i > 2 => pages[i].before < pages[i - 1].before

\* The third fetch is outstanding, issued with the second page's oldest ID.
C20_Witness ==
  /\ bpc = "await"
  /\ Len(pages) = 3
  /\ pages[3].before = allMessages[2 * PageCeiling]
  /\ pages[3].before < pages[2].before

\* The entity that the direct-ID lookup of the call's channel or category
\* yields (a throw when there is none).
IdLookup(c) ==
  channelsFetch(IF c.name = "get_channel_info" THEN c.channel ELSE c.category,
                c.apiFails)

\* C17 (as claimed): when the direct-ID lookup yields an entity that is not
\* usable (a channel of another server or not text-based; not a category of
\* the resolved server), resolution falls back to the name match within the
\* resolved server, so that the one text channel (category) of that server
\* named like the identifier is returned.
C17_FallbackOnUnusableEntity ==
  ( /\ Resolved
    /\ call.name = "get_channel_info" => ~Falsy(call.server)
    /\ call.name \in {"get_channel_info"} \cup CategoryTools
    /\ ScopeOf(call).tag = "return"
    /\ IdLookup(call).tag = "return"
    /\ ~(result.tag = "return" /\ result.value = IdLookup(call).value) )
  => LET named == {c \in guildChannels(ScopeOf(call).value.id) :
                     IF call.name = "get_channel_info"
                     THEN isTextBased(c) /\ EqIgnoreCase(c.name, call.channel)
                     ELSE /\ c.type = "GuildCategory"
                          /\ EqIgnoreCase(c.name, call.category)}
     IN  Cardinality(named) = 1 =>
           result.tag = "return" /\ named = {result.value}

\* C18 (as claimed): without a server identifier, the ID of an existing
\* channel that is not text-based fails WrongType, not NotFound.
C18_WrongTypeWithoutServer ==
  ( /\ Resolved /\ call.name = "get_channel_info"
    /\ Falsy(call.server)
    /\ IdLookup(call).tag = "return"
    /\ ~isTextBased(IdLookup(call).value) )
  => /\ result.tag = "throw"
     /\ result.error.kind = "WrongType"

\* C19 (as claimed): when the upstream call behind a direct-ID fetch fails,
\* the resolution fails with that failure: it neither returns an entity
\* matched by name nor throws a NotFound or Ambiguous failure.
C19_FetchFailurePropagates ==
  Resolved /\ call.apiFails /\ result.calls # <<>> =>
    /\ result.tag = "throw"
    /\ result.error.kind = "FetchRejected"

\* C14: read_messages issues exactly one page fetch per invocation that
\* reaches the fetch, whichever hints are supplied and whether the page is
\* full, short or empty; never a second one.
C14_OnePageFetch ==
  /\ fetches <= 1
  /\ rpc = "fetch" => fetches = 0
  /\ rpc = "await" => fetches = 1
  /\ rpc = "done" /\ response = Success => fetches = 1
  /\ rpc = "done" /\ response.kind = "Error" /\ response.error.site = 1634 =>
       fetches = 1

\* A full page was returned for a call with a before hint, after one fetch.
C14_Witness ==
  /\ rpc = "done" /\ response = Success
  /\ fetchOptions.before # 0
  /\ Len(messageList) = fetchOptions.limit
  /\ fetches = 1

\* C15 (as claimed): with limit L > 100 and no hint, on a channel holding
\* at least L messages, read_messages returns L messages.
C15_MoreThanOnePage ==
  ( /\ rpc = "done"
    /\ fetchOptions.limit > PageCeiling
    /\ hintsHonoured(fetchOptions) = {"none"}
    /\ source >= fetchOptions.limit )
  => /\ response = Success
     /\ Len(messageList) = fetchOptions.limit

\* What a run returns when it runs alone against src messages: the newest
\* min(total_limit, src) of them, all of them when unlimited.
Alone(src, unl, tl) ==
  LET n == IF unl THEN src ELSE Min(tl, src)
  IN  [k \in 1..n |-> src + 1 - k]

\* The single run of read_messages_bulk returns exactly Alone.
AloneIsSingleRun ==
  bpc = "done" /\ response = Success =>
    allMessages = Alone(source, unlimited, total_limit)

\* C16: invocations share no pagination state: every run starts with a
\* null cursor and an empty accumulation, its first fetch carries no
\* before, and however two runs (on the same or on different channels)
\* interleave at their fetches, each returns what it returns alone.
C16_RunsAreIndependent ==
  \A i \in Slots :
    LET r == runs[i] IN
    /\ r.bpc # "off" /\ r.pages = <<>> => r.before = 0 /\ r.allMessages = <<>>
    /\ r.pages # <<>> => r.pages[1].before = 0
    /\ r.bpc = "done" /\ r.response = Success =>
         r.allMessages = Alone(sources[r.channel], r.unlimited, r.total_limit)

\* The first run has returned three pages while the second, reading the
\* same channel with another target, awaits its second page.
C16_Witness ==
  /\ runs[1].bpc = "done" /\ runs[1].response = Success
  /\ Len(runs[1].pages) = 3
  /\ runs[2].bpc = "await"
  /\ Len(runs[2].pages) = 2
  /\ runs[2].channel = runs[1].channel
  /\ runs[2].total_limit # runs[1].total_limit

\* C21: every page fetch of a bulk run requests between 1 and 100 messages;
\* with a finite target the requested limit never exceeds what remained of
\* the target when the fetch was issued, and the accumulation never exceeds
\* the target.
C21_BatchWithinCeilingAndTarget ==
  bpc # "off" /\ bulkArgsValid(total_limit) =>
    /\ \A i \in 1..Len(pages) :
         /\ pages[i].limit >= 1
         /\ pages[i].limit <= PageCeiling
         /\ ~unlimited => pages[i].limit <= total_limit - GotUpTo(i - 1)
    /\ ~unlimited => Len(allMessages) <= total_limit

\* Target 237: the third fetch asks for the 37 messages that remain.
C21_Witness ==
  /\ bpc = "await" /\ ~unlimited
  /\ total_limit = 237
  /\ Len(pages) = 3
  /\ pages[3].limit = 37
  /\ Len(allMessages) = 2 * PageCeiling

\* The messages that the response of the bulk run carries: the accumulated
\* ones in a success response, none in any other.
returnedMessages == IF response.kind = "content" THEN allMessages ELSE <<>>

\* C23: a page fetch of a bulk run that fails ends the invocation at once
\* with an error response: the failed fetch is the last of the run (no
\* retry, no further fetch) and the response carries none of the messages
\* accumulated from earlier pages.
C23_FailedFetchEndsRun ==
  pages # <<>> /\ pages[Len(pages)].got = -1 /\ bpc # "await" =>
    /\ bpc = "done"
    /\ response.isError
    /\ response.kind = "Error"
    /\ response.error.kind = "FetchRejected"
    /\ returnedMessages = <<>>

\* The third fetch failed after two pages had been accumulated.
C23_Witness ==
  /\ bpc = "done"
  /\ Len(pages) = 3
  /\ pages[3].got = -1
  /\ Len(allMessages) = 2 * PageCeiling
  /\ response.isError

\* The number of fetches of the log that have not been answered.
Outstanding == Cardinality({i \in 1..Len(pages) : pages[i].got = -1})

\* C24: the page fetches of a run are strictly sequential: at most one is
\* outstanding, and it is the last one issued; while it is outstanding every
\* earlier page has been received and appended and the cursor is the one
\* taken from the page before it.
C24_FetchesAreSequential ==
  bpc # "off" /\ bulkArgsValid(total_limit) =>
    /\ Outstanding <= 1
    /\ \A i \in 1..(Len(pages) - 1) : pages[i].got >= 0
    /\ bpc = "await" =>
         /\ Outstanding = 1
         /\ Len(allMessages) = GotUpTo(Len(pages) - 1)
         /\ pages[Len(pages)].before = before
         /\ Len(pages) > 1 => before = allMessages[Len(allMessages)]
    /\ bpc = "loop" => Outstanding = 0 /\ Len(allMessages) = GotUpTo(Len(pages))

\* The second fetch is outstanding; the first page is in the accumulation.
C24_Witness ==
  /\ bpc = "await"
  /\ Len(pages) = 2
  /\ pages[1].got = PageCeiling
  /\ pages[2].got = -1
  /\ Len(allMessages) = PageCeiling

\* Only the last page of a run is empty or shorter than requested, and no
\* fetch follows it.
ShortPageIsLast ==
  /\ \A i \in 1..(Len(pages) - 1) : pages[i].got = pages[i].limit
  /\ pages # <<>> /\ pages[Len(pages)].got \in 0..(pages[Len(pages)].limit - 1) =>
       bpc \in {"return", "done"}

\* C22: every bulk run terminates, with a finite target and unbounded, also
\* while messages are posted to the channel; an empty or short page ends
\* the run with no further fetch.
C22_RunTerminates ==
  /\ [](bulkArgsValid(total_limit) => ShortPageIsLast)
  /\ (bpc \in {"loop", "await", "return"}) ~> (bpc = "done")

\* An unbounded run has ended after several pages although a message was
\* posted after its first fetch: the newest message is not in its result.
C22_Witness ==
  /\ bpc = "done" /\ response = Success
  /\ unlimited
  /\ Len(pages) >= 3
  /\ posted > 0
  /\ allMessages[1] < source

\* The hints that the fetch options carry.
HintsCarried == {h \in {"before", "after", "around"} : fetchOptions[h] # 0}

\* C25 (as claimed): the single fetch of read_messages never carries more
\* than one of the hints before, after and around.
C25_HintsMutuallyExclusive ==
  fetches = 1 => Cardinality(HintsCarried) <= 1

\* C26 (as claimed): a channel returned by the name phase is named by the
\* identifier: ignoring case, the identifier is the name or "#" followed by
\* the name; a "#" elsewhere in the identifier gives no match.
C26_HashOnlyLeading ==
  ( /\ Resolved /\ call.name = "get_channel_info"
    /\ ~Falsy(call.server)
    /\ result.tag = "return"
    /\ result.value.id # call.channel )
  => NamesChannel(call.channel, result.value)

\* C27: a channel returned by resolution with a server identifier is
\* text-based and belongs to the resolved server; a category returned by
\* category resolution has the category type and belongs to the resolved
\* server; on the ID path and on the name path.
C27_ResultIsUsableAndInScope ==
  Resolved /\ result.tag = "return" =>
    /\ call.name = "get_channel_info" /\ ~Falsy(call.server) =>
         /\ isTextBased(result.value)
         /\ result.value.guild = ScopeOf(call).value.id
    /\ call.name \in CategoryTools =>
         /\ result.value.type = "GuildCategory"
         /\ result.value.guild = ScopeOf(call).value.id

\* A text channel was returned by name although a category of the server
\* carries the same name.
C27_Witness ==
  /\ Resolved /\ call.name = "get_channel_info" /\ ~Falsy(call.server)
  /\ result.tag = "return"
  /\ result.value.id # call.channel
  /\ \E c \in channels :
       /\ c.guild = result.value.guild
       /\ c.type = "GuildCategory"
       /\ EqIgnoreCase(c.name, result.value.name)

C29_ConnectedOnlyWhenReady ==
  /\ [](mpc = "connected" => readyFired /\ discordClient = "client")
  /\ [](pc = "responded" =>
          /\ discordClient = "client"
          /\ response.kind # "exception"
          /\ requireDiscordClient.tag = "return")
  /\ [][discordClient = "client" => discordClient' = "client"]_vars

\* 'ready' fired after the login call had resolved: main waited for it,
\* connected, and a tool call was answered.
C29_Witness ==
  /\ mpc = "connected"
  /\ registered = {"store", "resolve"}
  /\ pc = "responded"
  /\ response = Success

\* C30: when the login call succeeds and 'ready' fires, main connects the
\* tool server, whether 'ready' fires before or after the login call
\* resolves (or the process has ended).
C30_NoLostWakeUp ==
  (mpc \in {"login", "wait", "resolved"}) ~> (mpc \in {"connected", "exit"})

\* 'ready' fired before the login call resolved: the wait found the client
\* set, registered no listener, and main connected.
C30_Witness ==
  /\ mpc = "connected"
  /\ readyFired
  /\ registered = {"store"}
  /\ discordClient = "client"

===========================================================================
